---------------------------- MODULE Spec2Model ----------------------------
(***************************************************************************)
(* A model of data_proc/process_water_levels.py: the monthly-series        *)
(* parser, the coordinated-forecast parser, the record-table extractor     *)
(* with its static fallback, the all-time aggregator and the assembler.    *)
(*                                                                         *)
(* Numbers.  Every float of the program is modelled as an integer count of *)
(* thousandths of a metre ("milli"): 176.10 is 176100, the sentinel        *)
(* -9999.0 is -9999000.  round(x, 2) yields a multiple of 10 milli.        *)
(*                                                                         *)
(* Text.  A string whose characters matter (a year token, a month name, a  *)
(* date key) is a sequence of one-character strings, so that slicing,      *)
(* formatting and the lexicographic order of sorted() are computed.  A     *)
(* string that is only handed to float() is a TLA+ string, and float() is  *)
(* the table FloatTable over the tokens the inputs are drawn from.         *)
(***************************************************************************)
EXTENDS Integers, Sequences, FiniteSets, TLC

VARIABLES
    pc,                 \* where the modelled function is
    lines_read,         \* how many lines of the file have been consumed
    header,             \* parse_*_csv: the header line once consumed, <<>> before
    line,               \* the loop variable `line` / `values` of the row loops
    monthly_data,       \* parse_monthly_csv: list of monthly Observations
    annual_data,        \* parse_monthly_csv: list of annual Observations
    csv_data,           \* the value parse_monthly_csv returned
    all_time_records,   \* the value compute_all_time_records returned
    col_indices,        \* parse_forecast_csv: column name -> 0-based index
    forecasts,          \* parse_forecast_csv: lake column -> date key -> values
    result,             \* the value parse_forecast_csv returned
    HAS_PDFPLUMBER,     \* whether "import pdfplumber" succeeded
    pdf,                \* the file GLWL_MM_Metric.pdf as pdfplumber presents it
    page_idx,           \* parse_pdf_records: pages of pdf.pages taken so far
    lines,              \* parse_pdf_records: the lines of the current page
    line_idx,           \* parse_pdf_records: 0-based index into lines
    current_lake,       \* parse_pdf_records: the lake id of the last header, or None
    records,            \* parse_pdf_records: lake id -> extracted record
    pdf_error,          \* whether "Error parsing PDF" was printed
    pdf_records,        \* process_all_data: the records the lakes are given
    lake_idx,           \* process_all_data: position in LAKES_CONFIG, from 1
    csv_exists,         \* what csv_file.exists() answered for the lakes visited
    output              \* process_all_data: the list of lake records

monthlyVars  == <<monthly_data, annual_data, csv_data, all_time_records>>
forecastVars == <<col_indices, forecasts, result>>
pdfVars      == <<HAS_PDFPLUMBER, pdf, page_idx, lines, line_idx, current_lake,
                  records, pdf_error, pdf_records>>
lakeVars     == <<lake_idx, csv_exists, output>>

vars == <<pc, lines_read, header, line, monthlyVars, forecastVars, pdfVars, lakeVars>>

---------------------------------------------------------------------------
(* Bounds of the model *)

\* lines of a monthly CSV file read in one run (comments, header, rows)
MaxLines == 3

\* the most lines of text a page of the record table holds when
\* parse_pdf_records is run on its own
MaxPageLines == 4

---------------------------------------------------------------------------
(* Python values *)

\* the empty dict {} / the empty list []
EmptyDict == <<>>

\* None where a lake id is expected
None == "None"

\* None where a number is expected (a year or a level; neither is negative)
NoneNumber == -1

\* d[key] = val
Put(d, key, val) == [k \in DOMAIN d \cup {key} |-> IF k = key THEN val ELSE d[k]]

Min2(a, b) == IF a <= b THEN a ELSE b

---------------------------------------------------------------------------
(* float() and round() *)

\* float(s) for the field texts of the model, in milli; a text outside the
\* table raises ValueError
FloatTable ==
    [s \in {"176.10", "176.196", "176.204", "176.40",
            "-9999.0", "-9999", "-9999.001",
            "183.34", "183.71", "182.83", "183.41"} |->
        CASE s = "176.10"    -> 176100
          [] s = "176.196"   -> 176196
          [] s = "176.204"   -> 176204
          [] s = "176.40"    -> 176400
          [] s = "-9999.0"   -> -9999000
          [] s = "-9999"     -> -9999000
          [] s = "-9999.001" -> -9999001
          [] s = "183.34"    -> 183340
          [] s = "183.71"    -> 183710
          [] s = "182.83"    -> 182830
          [] s = "183.41"    -> 183410]

\* texts float() rejects
NotFloat == {"", "abc", "1.2.3"}

RaisesValueError(s) == s \notin DOMAIN FloatTable

float(s) == FloatTable[s]

NO_DATA_VALUE == -9999000

\* round(num / den, 2) of a value given as the fraction num/den milli: the
\* nearest multiple of 10 milli, an exact tie going to the even hundredth
round2(num, den) ==
    LET q == num \div (10 * den)
        r == num - q * 10 * den
    IN  IF 2 * r < 10 * den THEN q * 10
        ELSE IF 2 * r > 10 * den THEN (q + 1) * 10
        ELSE IF q % 2 = 0 THEN q * 10 ELSE (q + 1) * 10

RECURSIVE sum(_)
sum(s) == IF s = <<>> THEN 0 ELSE Head(s) + sum(Tail(s))

---------------------------------------------------------------------------
(* Formatting *)

Digit == <<"0", "1", "2", "3", "4", "5", "6", "7", "8", "9">>

\* f"{n:02d}" for 0 <= n <= 99
Format02d(n) == <<Digit[(n \div 10) + 1], Digit[(n % 10) + 1]>>

\* f"{year}-{month:02d}"
FormatDateKey(year, month) == year \o <<"-">> \o Format02d(month)

---------------------------------------------------------------------------
(* parse_monthly_csv *)

\* MonthLoop with the row abandoned at the first unparsable field
RECURSIVE MonthLoop_abort(_, _, _, _)
MonthLoop_abort(year, fields, month_idx, acc) ==
    IF month_idx > Len(fields) THEN acc
    ELSE LET val_str == fields[month_idx]
         IN  IF RaisesValueError(val_str) THEN acc
             ELSE LET value == float(val_str)
                  IN  IF value # NO_DATA_VALUE
                      THEN MonthLoop_abort(year, fields, month_idx + 1,
                             [monthly_data |->
                                 Append(acc.monthly_data,
                                        [date |-> FormatDateKey(year, month_idx),
                                         value |-> round2(value, 1)]),
                              monthly_values |->
                                 Append(acc.monthly_values, value)])
                      ELSE MonthLoop_abort(year, fields, month_idx + 1, acc)

\* the loop over values[1:13] of one row: acc.monthly_data is the list the
\* Observations are appended to, acc.monthly_values the row's kept values
RECURSIVE MonthLoop(_, _, _, _)
MonthLoop(year, fields, month_idx, acc) ==
    IF month_idx > Len(fields) THEN acc
    ELSE LET val_str == fields[month_idx]
         IN  IF RaisesValueError(val_str)
             THEN MonthLoop(year, fields, month_idx + 1, acc)
             ELSE LET value == float(val_str)
                  IN  IF value # NO_DATA_VALUE
                      THEN MonthLoop(year, fields, month_idx + 1,
                             [monthly_data |->
                                 Append(acc.monthly_data,
                                        [date |-> FormatDateKey(year, month_idx),
                                         value |-> round2(value, 1)]),
                              monthly_values |->
                                 Append(acc.monthly_values, value)])
                      ELSE MonthLoop(year, fields, month_idx + 1, acc)

\* AnnualOfRow averaging whatever months the row kept
AnnualOfRow_partial(year, monthly_values) ==
    IF Len(monthly_values) > 0
    THEN <<[date |-> year, value |-> round2(sum(monthly_values), Len(monthly_values))]>>
    ELSE <<>>

\* the annual average appended after a row's month loop
AnnualOfRow(year, monthly_values) ==
    IF Len(monthly_values) = 12
    THEN <<[date |-> year, value |-> round2(sum(monthly_values), 12)]>>
    ELSE <<>>

\* one iteration of "for line in data_lines[1:]"; row.values[1] is the year
\* text, row.values[2..] the texts of the following fields
ParseMonthlyRow(acc, row) ==
    IF Len(row.values) < 13 THEN acc
    ELSE LET year == row.values[1]
             r == MonthLoop(year, SubSeq(row.values, 2, 13), 1,
                            [monthly_data |-> acc.monthly, monthly_values |-> <<>>])
         IN  [monthly |-> r.monthly_data,
              annual  |-> acc.annual \o AnnualOfRow(year, r.monthly_values)]

---------------------------------------------------------------------------
(* compute_all_time_records *)

RECURSIVE max(_)
max(s) == IF Len(s) = 1 THEN s[1]
          ELSE LET m == max(Tail(s)) IN IF s[1] >= m THEN s[1] ELSE m

RECURSIVE min(_)
min(s) == IF Len(s) = 1 THEN s[1]
          ELSE LET m == min(Tail(s)) IN IF s[1] <= m THEN s[1] ELSE m

\* next_date returning the last Observation holding the value
RECURSIVE next_date_last(_, _)
next_date_last(values_with_dates, val) ==
    LET n == Len(values_with_dates)
    IN  IF values_with_dates[n].value = val THEN values_with_dates[n].date
        ELSE next_date_last(SubSeq(values_with_dates, 1, n - 1), val)

\* next(d for v, d in values_with_dates if v == val)
RECURSIVE next_date(_, _)
next_date(values_with_dates, val) ==
    IF Head(values_with_dates).value = val THEN Head(values_with_dates).date
    ELSE next_date(Tail(values_with_dates), val)

compute_all_time_records(data) ==
    IF data = <<>> THEN EmptyDict
    ELSE LET values == [i \in 1..Len(data) |-> data[i].value]
             max_val == max(values)
             min_val == min(values)
         IN  [max |-> [value |-> round2(max_val, 1), date |-> next_date(data, max_val)],
              min |-> [value |-> round2(min_val, 1), date |-> next_date(data, min_val)],
              avg |-> [value |-> round2(sum(values), Len(values))]]

---------------------------------------------------------------------------
(* parse_forecast_csv *)

MONTH_NAMES ==
    << <<"J","a","n">>, <<"F","e","b">>, <<"M","a","r">>, <<"A","p","r">>,
       <<"M","a","y">>, <<"J","u","n">>, <<"J","u","l">>, <<"A","u","g">>,
       <<"S","e","p">>, <<"O","c","t">>, <<"N","o","v">>, <<"D","e","c">> >>

LAKE_COLS == <<"SUP", "MIH", "STC", "ERI", "ONT">>

\* forecasts = {col: {} for col in [...]}
NoForecasts == [col \in {LAKE_COLS[i] : i \in 1..5} |-> EmptyDict]

\* s[:3]
Prefix3(s) == SubSeq(s, 1, Min2(3, Len(s)))

\* whether MONTH_NAMES.index(name) raises ValueError
NotInMonthNames(name) == \A i \in 1..12 : MONTH_NAMES[i] # name

\* MONTH_NAMES.index(name), 0-based
MonthIndex(name) == (CHOOSE i \in 1..12 : MONTH_NAMES[i] = name) - 1

\* col_indices of a header line: for i, col in enumerate(header), the last
\* occurrence of a name winning
ColIndices(h) ==
    [col \in {h[i] : i \in 1..Len(h)} |->
        (CHOOSE i \in 1..Len(h) : h[i] = col /\ \A j \in (i + 1)..Len(h) : h[j] # col) - 1]

\* col_indices.get(name, default)
Get(indices, name, default) ==
    IF name \in DOMAIN indices THEN indices[name] ELSE default

\* whether values[idx] (0-based) raises IndexError
RaisesIndexError(values, idx) == idx >= Len(values)

\* forecasts[lake_col][date_key]['values'].append(value)
AppendValue(fc, lake_col, date_key, value) ==
    LET dates == fc[lake_col]
        old == IF date_key \in DOMAIN dates THEN dates[date_key] ELSE <<>>
    IN  [fc EXCEPT ![lake_col] =
            [k \in DOMAIN dates \cup {date_key} |->
                IF k = date_key THEN Append(old, value) ELSE dates[k]]]

\* "for lake_col in [...]" inside the row's try block, from the i-th lake
\* column on: the first IndexError or ValueError leaves the loop and the row,
\* keeping what the earlier columns appended
RECURSIVE LakeLoop(_, _, _, _, _)
LakeLoop(fc, indices, values, date_key, i) ==
    IF i > Len(LAKE_COLS) THEN fc
    ELSE LET lake_col == LAKE_COLS[i]
         IN  IF lake_col \notin DOMAIN indices
             THEN LakeLoop(fc, indices, values, date_key, i + 1)
             ELSE IF RaisesIndexError(values, indices[lake_col]) THEN fc
             ELSE IF RaisesValueError(values[indices[lake_col] + 1]) THEN fc
             ELSE LakeLoop(
                      AppendValue(fc, lake_col, date_key, float(values[indices[lake_col] + 1])),
                      indices, values, date_key, i + 1)

\* one iteration of "for line in data_lines[1:]"; the Date field is held as
\* date_str.split(), its tokens
ParseForecastRow(fc, indices, values) ==
    IF Len(values) < 7 THEN fc
    ELSE IF RaisesIndexError(values, Get(indices, "Band", 5)) THEN fc
    ELSE IF RaisesIndexError(values, Get(indices, "Date", 6)) THEN fc
    ELSE LET date_parts == values[Get(indices, "Date", 6) + 1]
         IN  IF Len(date_parts) # 2 THEN fc
             ELSE LET month_name == date_parts[1]
                      year == date_parts[2]
                  IN  IF NotInMonthNames(Prefix3(month_name)) THEN fc
                      ELSE LakeLoop(fc, indices, values,
                                    FormatDateKey(year, MonthIndex(Prefix3(month_name)) + 1),
                                    1)

\* ord(c) for the characters of a date key
Ord(c) ==
    CASE c = "-" -> 45
      [] c = "0" -> 48 [] c = "1" -> 49 [] c = "2" -> 50 [] c = "3" -> 51
      [] c = "4" -> 52 [] c = "5" -> 53 [] c = "6" -> 54 [] c = "7" -> 55
      [] c = "8" -> 56 [] c = "9" -> 57

\* a < b for two Python strings: the first differing character decides, a
\* proper prefix comes first
RECURSIVE StrLess(_, _)
StrLess(a, b) ==
    IF b = <<>> THEN FALSE
    ELSE IF a = <<>> THEN TRUE
    ELSE IF Head(a) # Head(b) THEN Ord(Head(a)) < Ord(Head(b))
    ELSE StrLess(Tail(a), Tail(b))

\* sorted_keys with the keys in descending order
RECURSIVE sorted_keys_reversed(_)
sorted_keys_reversed(keys) ==
    IF keys = {} THEN <<>>
    ELSE LET last == CHOOSE k \in keys : \A other \in keys \ {k} : StrLess(other, k)
         IN  <<last>> \o sorted_keys_reversed(keys \ {last})

\* the keys of sorted(dates.items()): ascending by the key string
RECURSIVE sorted_keys(_)
sorted_keys(keys) ==
    IF keys = {} THEN <<>>
    ELSE LET first == CHOOSE k \in keys : \A other \in keys \ {k} : StrLess(k, other)
         IN  <<first>> \o sorted_keys(keys \ {first})

\* ForecastBand taking the first and the last value of the bucket
ForecastBand_ends(date_key, values) ==
    [date |-> date_key,
     forecast_low |-> round2(values[1], 1),
     forecast_high |-> round2(values[Len(values)], 1)]

\* one entry of the final format
ForecastBand(date_key, values) ==
    [date |-> date_key,
     forecast_low |-> round2(min(values), 1),
     forecast_high |-> round2(max(values), 1)]

\* "Convert to final format with min/max"
FinalFormat(fc) ==
    [lake_col \in DOMAIN fc |->
        LET keys == SelectSeq(sorted_keys(DOMAIN fc[lake_col]),
                              LAMBDA k : fc[lake_col][k] # <<>>)
        IN  [i \in 1..Len(keys) |-> ForecastBand(keys[i], fc[lake_col][keys[i]])]]

---------------------------------------------------------------------------
(* parse_pdf_records *)

\* A line of extracted page text is [prefix, tokens]: prefix is the lake
\* header, "Mean", "Max" or "Min" the stripped line starts with ("" if none),
\* tokens are the blank-separated words after it.

lake_name_map ==
    [n \in {"LAKE SUPERIOR", "LAKES MICHIGAN-HURON", "LAKE ST. CLAIR",
            "LAKE ERIE", "LAKE ONTARIO"} |->
        CASE n = "LAKE SUPERIOR"        -> "superior"
          [] n = "LAKES MICHIGAN-HURON" -> "michigan_huron"
          [] n = "LAKE ST. CLAIR"       -> "st_clair"
          [] n = "LAKE ERIE"            -> "erie"
          [] n = "LAKE ONTARIO"         -> "ontario"]

\* re.findall(r'[\d.]+', token) for the words of the model
NumberRuns(token) ==
    CASE token \in {"183.34", "183.71", "182.83", "183.41", "1.2.3",
                    "2020", "1926", "1985"} -> <<token>>
      [] token = "1918-2024" -> <<"1918", "2024">>
      [] OTHER -> <<>>

\* re.findall(r'\d{4}', token) for the words of the model
YearRuns(token) ==
    CASE token \in {"2020", "1926", "1985"} -> <<token>>
      [] token = "1918-2024" -> <<"1918", "2024">>
      [] OTHER -> <<>>

\* int(s) of a 4-digit run
int(s) ==
    CASE s = "2020" -> 2020 [] s = "1926" -> 1926 [] s = "1985" -> 1985
      [] s = "1918" -> 1918 [] s = "2024" -> 2024

RECURSIVE FindNumbers(_)
FindNumbers(tokens) ==
    IF tokens = <<>> THEN <<>> ELSE NumberRuns(Head(tokens)) \o FindNumbers(Tail(tokens))

RECURSIVE FindYears(_)
FindYears(tokens) ==
    IF tokens = <<>> THEN <<>> ELSE YearRuns(Head(tokens)) \o FindYears(Tail(tokens))

\* str(month_idx + 1)
MonthKey == <<"1", "2", "3", "4", "5", "6", "7", "8", "9", "10", "11", "12">>

\* records[lake_id] = {'calendar_month_records': {}, 'period_mean': None}
FreshRecord == [calendar_month_records |-> EmptyDict, period_mean |-> NoneNumber]

\* if month_key not in rec['calendar_month_records']: ...[month_key] = {}
EnsureMonth(rec, month_key) ==
    IF month_key \in DOMAIN rec.calendar_month_records THEN rec
    ELSE [rec EXCEPT !.calendar_month_records = Put(@, month_key, EmptyDict)]

\* rec['calendar_month_records'][month_key][field] = val
SetMonthField(rec, month_key, field, val) ==
    [rec EXCEPT !.calendar_month_records =
        Put(@, month_key, Put(@[month_key], field, val))]

\* the Mean row's "for month_idx in range(12)" from month_idx on, then the
\* 13th value; float() raising leaves with raised set
RECURSIVE MeanLoop(_, _, _)
MeanLoop(rec, values, month_idx) ==
    IF month_idx >= 12
    THEN IF Len(values) >= 13
         THEN IF RaisesValueError(values[13]) THEN [rec |-> rec, raised |-> TRUE]
              ELSE [rec |-> [rec EXCEPT !.period_mean = float(values[13])],
                    raised |-> FALSE]
         ELSE [rec |-> rec, raised |-> FALSE]
    ELSE LET month_key == MonthKey[month_idx + 1]
             ensured == EnsureMonth(rec, month_key)
         IN  IF RaisesValueError(values[month_idx + 1])
             THEN [rec |-> ensured, raised |-> TRUE]
             ELSE MeanLoop(SetMonthField(ensured, month_key, "mean",
                                         [value |-> float(values[month_idx + 1])]),
                           values, month_idx + 1)

\* the Max / Min row's "for month_idx in range(min(len(values), 12))"
RECURSIVE ExtremeLoop(_, _, _, _, _)
ExtremeLoop(rec, field, values, years, month_idx) ==
    IF month_idx >= Min2(Len(values), 12) THEN [rec |-> rec, raised |-> FALSE]
    ELSE LET month_key == MonthKey[month_idx + 1]
             ensured == EnsureMonth(rec, month_key)
         IN  IF RaisesValueError(values[month_idx + 1])
             THEN [rec |-> ensured, raised |-> TRUE]
             ELSE ExtremeLoop(
                      SetMonthField(ensured, month_key, field,
                          [value |-> float(values[month_idx + 1]),
                           year_set |-> IF month_idx < Len(years)
                                        THEN int(years[month_idx + 1])
                                        ELSE NoneNumber]),
                      field, values, years, month_idx + 1)

\* one iteration of "while line_idx < len(lines)": the header check, the
\* Mean / Max / Min branches and the final line_idx += 1.  st holds records,
\* current_lake, line_idx (0-based) and raised
PdfLineStep(st, page_lines) ==
    LET ln == page_lines[st.line_idx + 1]
        is_header == ln.prefix \in DOMAIN lake_name_map
        lake == IF is_header THEN lake_name_map[ln.prefix] ELSE st.current_lake
        recs == IF is_header THEN Put(st.records, lake, FreshRecord) ELSE st.records
        values == FindNumbers(ln.tokens)
    IN  IF lake # None /\ ln.prefix = "Mean"
        THEN IF Len(values) >= 12
             THEN LET r == MeanLoop(recs[lake], values, 0)
                  IN  [records |-> Put(recs, lake, r.rec),
                       current_lake |-> lake,
                       line_idx |-> IF r.raised THEN st.line_idx ELSE st.line_idx + 1,
                       raised |-> r.raised]
             ELSE [records |-> recs, current_lake |-> lake,
                   line_idx |-> st.line_idx + 1, raised |-> FALSE]
        ELSE IF lake # None /\ ln.prefix \in {"Max", "Min"}
        THEN IF st.line_idx + 1 < Len(page_lines)
             THEN LET years == FindYears(page_lines[st.line_idx + 2].tokens)
                      r == ExtremeLoop(recs[lake],
                                       IF ln.prefix = "Max" THEN "max" ELSE "min",
                                       values, years, 0)
                  IN  [records |-> Put(recs, lake, r.rec),
                       current_lake |-> lake,
                       line_idx |-> IF r.raised THEN st.line_idx + 1 ELSE st.line_idx + 2,
                       raised |-> r.raised]
             ELSE [records |-> recs, current_lake |-> lake,
                   line_idx |-> st.line_idx + 2, raised |-> FALSE]
        ELSE [records |-> recs, current_lake |-> lake,
              line_idx |-> st.line_idx + 1, raised |-> FALSE]

---------------------------------------------------------------------------
(* build_hardcoded_records *)

\* the 12 entries '1'..'12' of one lake, from the columns of its table
MonthTable(mean, max_value, max_year, min_value, min_year) ==
    [k \in {MonthKey[i] : i \in 1..12} |->
        LET i == CHOOSE i \in 1..12 : MonthKey[i] = k
        IN  [mean |-> [value |-> mean[i]],
             max  |-> [value |-> max_value[i], year_set |-> max_year[i]],
             min  |-> [value |-> min_value[i], year_set |-> min_year[i]]]]

build_hardcoded_records ==
    [ superior |->
        [calendar_month_records |-> MonthTable(
            <<183340, 183280, 183240, 183270, 183370, 183460, 183520, 183540, 183540, 183520, 183480, 183410>>,
            <<183710, 183640, 183610, 183680, 183770, 183840, 183860, 183860, 183860, 183910, 183890, 183810>>,
            <<2020, 2020, 1986, 1986, 2019, 2019, 2019, 2019, 2019, 1985, 1985, 1985>>,
            <<182830, 182760, 182740, 182720, 182760, 182850, 182960, 183010, 183020, 183100, 183010, 182920>>,
            <<1926, 1926, 1926, 1926, 1926, 1926, 1926, 2007, 2007, 1925, 1925, 1925>>),
         period_mean |-> 183410],
      michigan_huron |->
        [calendar_month_records |-> MonthTable(
            <<176330, 176310, 176330, 176410, 176510, 176570, 176600, 176580, 176530, 176470, 176410, 176360>>,
            <<177260, 177240, 177220, 177290, 177370, 177440, 177450, 177420, 177380, 177500, 177380, 177260>>,
            <<2020, 2020, 2020, 2020, 2020, 2020, 2020, 2020, 1986, 1986, 1986, 1986>>,
            <<175570, 175590, 175580, 175610, 175740, 175760, 175780, 175770, 175760, 175700, 175650, 175610>>,
            <<2013, 1964, 1964, 1964, 1964, 1964, 1964, 1964, 1964, 1964, 1964, 2012>>),
         period_mean |-> 176450],
      st_clair |->
        [calendar_month_records |-> MonthTable(
            <<174880, 174820, 174940, 175080, 175160, 175210, 175230, 175190, 175120, 175030, 174940, 174940>>,
            <<175800, 175800, 175830, 175910, 175980, 176020, 176040, 175970, 175880, 175960, 175820, 175800>>,
            <<2020, 1986, 2020, 2020, 2020, 2020, 2019, 2020, 2020, 1986, 1986, 1986>>,
            <<173880, 173890, 174050, 174320, 174420, 174450, 174500, 174410, 174340, 174270, 174180, 174240>>,
            <<1936, 1926, 1934, 1926, 1934, 1934, 1934, 1934, 1934, 1934, 1934, 1964>>),
         period_mean |-> 175050],
      erie |->
        [calendar_month_records |-> MonthTable(
            <<174030, 174030, 174110, 174260, 174340, 174370, 174360, 174290, 174200, 174100, 174030, 174020>>,
            <<174860, 174900, 174950, 175050, 175080, 175140, 175130, 175020, 174870, 174940, 174850, 174890>>,
            <<1987, 2020, 2020, 2020, 2020, 2019, 2019, 2019, 2019, 1986, 1986, 1986>>,
            <<173210, 173180, 173200, 173380, 173440, 173450, 173450, 173430, 173380, 173300, 173200, 173190>>,
            <<1935, 1936, 1934, 1934, 1934, 1934, 1934, 1934, 1934, 1934, 1934, 1934>>),
         period_mean |-> 174180],
      ontario |->
        [calendar_month_records |-> MonthTable(
            <<74580, 74620, 74690, 74890, 75030, 75060, 75010, 74900, 74750, 74620, 74540, 74530>>,
            <<75160, 75270, 75370, 75650, 75800, 75910, 75800, 75580, 75410, 75220, 75180, 75200>>,
            <<1946, 1952, 1952, 1973, 2017, 2019, 2019, 1947, 1947, 1945, 1945, 1945>>,
            <<73810, 73780, 73940, 74030, 74110, 74190, 74140, 74000, 73910, 73820, 73750, 73740>>,
            <<1935, 1936, 1935, 1935, 1935, 1935, 1934, 1934, 1934, 1934, 1934, 1934>>),
         period_mean |-> 74770] ]

---------------------------------------------------------------------------
(* Inputs of parse_monthly_csv *)

Y1950 == <<"1", "9", "5", "0">>
Y1951 == <<"1", "9", "5", "1">>

\* the row "year,f,f,...,f" of n month fields, all `base` except that field
\* `pos` (if any) holds `special`
MonthlyRowOf(year, base, pos, special, n) ==
    [kind |-> "data",
     values |-> <<year>> \o [k \in 1..n |-> IF k = pos THEN special ELSE base]]

MonthlyRows ==
    { MonthlyRowOf(y, b, p, s, 12) :
        y \in {Y1950, Y1951}, b \in {"176.10", "176.196", "-9999.001"},
        p \in {1, 7, 12}, s \in {"abc", "-9999.0", "176.204"} }
    \cup { MonthlyRowOf(y, b, 0, b, n) :
        y \in {Y1950, Y1951}, b \in {"176.10", "176.196", "-9999.001"},
        n \in {11, 12, 13} }

\* the first non-comment line, consumed as the header whatever it holds
MonthlyHeaders ==
    { <<"Year", "Jan", "Feb", "Mar", "Apr", "May", "Jun",
        "Jul", "Aug", "Sep", "Oct", "Nov", "Dec">>,
      MonthlyRowOf(Y1950, "176.10", 0, "176.10", 12).values }

CommentLine == [kind |-> "comment", values |-> <<>>]
BlankLine   == [kind |-> "blank", values |-> <<>>]

---------------------------------------------------------------------------
(* Inputs of parse_forecast_csv *)

\* header lines: Band and Date named at 5 and 6 and the five lake columns; the
\* STC column missing; Band and Date not named (the fallback indices apply)
ForecastHeaders ==
    { <<"Src", "Run", "Issued", "Units", "Datum", "Band", "Date",
        "SUP", "MIH", "STC", "ERI", "ONT">>,
      <<"Src", "Run", "Issued", "Units", "Datum", "Band", "Date",
        "SUP", "MIH", "ERI", "ONT">>,
      <<"Src", "Run", "Issued", "Units", "Datum", "Pct", "Month",
        "SUP", "MIH", "STC", "ERI", "ONT">> }

Feb      == <<"F","e","b">>
Mar      == <<"M","a","r">>
Dec      == <<"D","e","c">>
February == <<"F","e","b","r","u","a","r","y">>
feb      == <<"f","e","b">>
Y2026    == <<"2","0","2","6">>
Y2025    == <<"2","0","2","5">>
Y999     == <<"9","9","9">>

\* Date fields that yield a date key
GoodDates == { <<Feb, Y2026>>, <<Mar, Y2026>>, <<Dec, Y2025>>, <<Feb, Y999>>,
               <<February, Y2026>> }

\* Date fields that do not: an unknown month name, a single token
BadDates == { <<feb, Y2026>>, <<Feb>> }

\* the lake cells of a row: n cells, all `base` except that cell `pos` (if
\* any) holds `special`
CellsOf(base, pos, special, n) == [k \in 1..n |-> IF k = pos THEN special ELSE base]

ForecastCells ==
    { CellsOf(b, p, "abc", 5) : b \in {"176.10", "176.40", "176.196"}, p \in {0, 1, 3} }
    \cup { CellsOf("176.10", 0, "abc", 2) }

\* the row "x,x,x,x,x,<band>,<date>,<cells>"
ForecastRowOf(date_parts, cells) ==
    [kind |-> "data",
     values |-> <<"x", "x", "x", "x", "x", "50", date_parts>> \o cells]

ForecastRows ==
    { ForecastRowOf(d, c) : d \in GoodDates, c \in ForecastCells }
    \cup { ForecastRowOf(d, CellsOf("176.10", 0, "abc", 5)) : d \in BadDates }
    \cup { [kind |-> "data", values |-> <<"x", "x", "x", "x", "x", "50">>] }

---------------------------------------------------------------------------
(* The state of a function that is not running *)

ForecastIdle ==
    /\ col_indices = EmptyDict
    /\ forecasts = NoForecasts
    /\ result = EmptyDict

PdfIdle ==
    /\ HAS_PDFPLUMBER = FALSE
    /\ pdf = [exists |-> FALSE, opens |-> FALSE, pages |-> <<>>]
    /\ page_idx = 0
    /\ lines = <<>>
    /\ line_idx = 0
    /\ current_lake = None
    /\ records = EmptyDict
    /\ pdf_error = FALSE
    /\ pdf_records = EmptyDict

LakesIdle ==
    /\ lake_idx = 1
    /\ csv_exists = EmptyDict
    /\ output = <<>>

MonthlyIdle ==
    /\ monthly_data = <<>>
    /\ annual_data = <<>>
    /\ csv_data = [monthly |-> <<>>, annual |-> <<>>]
    /\ all_time_records = EmptyDict

---------------------------------------------------------------------------
(* parse_monthly_csv and compute_all_time_records, line by line *)

InitMonthly ==
    /\ pc = "parse_monthly_csv"
    /\ lines_read = 0
    /\ header = <<>>
    /\ line = BlankLine
    /\ MonthlyIdle
    /\ ForecastIdle
    /\ PdfIdle
    /\ LakesIdle

\* a line the data_lines filter drops: a comment or a blank line
SkipLine ==
    /\ pc \in {"parse_monthly_csv", "parse_forecast_csv"}
    /\ lines_read < MaxLines
    /\ \E l \in {CommentLine, BlankLine} : line' = l
    /\ lines_read' = lines_read + 1
    /\ UNCHANGED <<pc, header, monthlyVars, forecastVars, pdfVars, lakeVars>>

\* data_lines[0]
ReadMonthlyHeader ==
    /\ pc = "parse_monthly_csv"
    /\ lines_read < MaxLines
    /\ header = <<>>
    /\ \E h \in MonthlyHeaders :
         /\ header' = h
         /\ line' = [kind |-> "header", values |-> h]
    /\ lines_read' = lines_read + 1
    /\ UNCHANGED <<pc, monthlyVars, forecastVars, pdfVars, lakeVars>>

\* one line of data_lines[1:]
ReadMonthlyRow ==
    /\ pc = "parse_monthly_csv"
    /\ lines_read < MaxLines
    /\ header # <<>>
    /\ \E row \in MonthlyRows :
         LET r == ParseMonthlyRow([monthly |-> monthly_data, annual |-> annual_data], row)
         IN  /\ line' = row
             /\ monthly_data' = r.monthly
             /\ annual_data' = r.annual
    /\ lines_read' = lines_read + 1
    /\ UNCHANGED <<pc, header, csv_data, all_time_records, forecastVars, pdfVars, lakeVars>>

\* return {'monthly': ..., 'annual': ...}
ReturnMonthly ==
    /\ pc = "parse_monthly_csv"
    /\ csv_data' = [monthly |-> monthly_data, annual |-> annual_data]
    /\ pc' = "compute_all_time_records"
    /\ UNCHANGED <<lines_read, header, line, monthly_data, annual_data, all_time_records,
                   forecastVars, pdfVars, lakeVars>>

\* all_time_records = compute_all_time_records(csv_data['monthly'])
ComputeAllTime ==
    /\ pc = "compute_all_time_records"
    /\ all_time_records' = compute_all_time_records(csv_data.monthly)
    /\ pc' = "done"
    /\ UNCHANGED <<lines_read, header, line, monthly_data, annual_data, csv_data,
                   forecastVars, pdfVars, lakeVars>>

NextMonthly ==
    \/ SkipLine
    \/ ReadMonthlyHeader
    \/ ReadMonthlyRow
    \/ ReturnMonthly
    \/ ComputeAllTime

SpecMonthly == InitMonthly /\ [][NextMonthly]_vars

---------------------------------------------------------------------------
(* parse_forecast_csv, line by line *)

InitForecast ==
    /\ pc = "parse_forecast_csv"
    /\ lines_read = 0
    /\ header = <<>>
    /\ line = BlankLine
    /\ ForecastIdle
    /\ MonthlyIdle
    /\ PdfIdle
    /\ LakesIdle

\* data_lines[0] and the col_indices built from it
ReadForecastHeader ==
    /\ pc = "parse_forecast_csv"
    /\ lines_read < MaxLines
    /\ header = <<>>
    /\ \E h \in ForecastHeaders :
         /\ header' = h
         /\ col_indices' = ColIndices(h)
         /\ line' = [kind |-> "header", values |-> h]
    /\ lines_read' = lines_read + 1
    /\ UNCHANGED <<pc, forecasts, result, monthlyVars, pdfVars, lakeVars>>

\* one line of data_lines[1:]
ReadForecastRow ==
    /\ pc = "parse_forecast_csv"
    /\ lines_read < MaxLines
    /\ header # <<>>
    /\ \E row \in ForecastRows :
         /\ line' = row
         /\ forecasts' = ParseForecastRow(forecasts, col_indices, row.values)
    /\ lines_read' = lines_read + 1
    /\ UNCHANGED <<pc, header, col_indices, result, monthlyVars, pdfVars, lakeVars>>

\* the final conversion and "return result"
ReturnForecast ==
    /\ pc = "parse_forecast_csv"
    /\ result' = FinalFormat(forecasts)
    /\ pc' = "done"
    /\ UNCHANGED <<lines_read, header, line, col_indices, forecasts, monthlyVars, pdfVars, lakeVars>>

NextForecast ==
    \/ SkipLine
    \/ ReadForecastHeader
    \/ ReadForecastRow
    \/ ReturnForecast

SpecForecast == InitForecast /\ [][NextForecast]_vars

---------------------------------------------------------------------------
(* The parsers applied to a whole file, as process_all_data calls them *)

\* data_lines: the lines that are neither comments nor blank
data_lines(file_lines) ==
    SelectSeq(file_lines, LAMBDA l : l.kind \notin {"comment", "blank"})

RECURSIVE MonthlyRowsFrom(_, _, _)
MonthlyRowsFrom(acc, rows, i) ==
    IF i > Len(rows) THEN acc
    ELSE MonthlyRowsFrom(ParseMonthlyRow(acc, rows[i]), rows, i + 1)

parse_monthly_csv(file_lines) ==
    LET rows == data_lines(file_lines)
    IN  IF rows = <<>> THEN [monthly |-> <<>>, annual |-> <<>>]
        ELSE MonthlyRowsFrom([monthly |-> <<>>, annual |-> <<>>], rows, 2)

RECURSIVE ForecastRowsFrom(_, _, _, _)
ForecastRowsFrom(fc, indices, rows, i) ==
    IF i > Len(rows) THEN fc
    ELSE ForecastRowsFrom(ParseForecastRow(fc, indices, rows[i].values), indices, rows, i + 1)

parse_forecast_csv(file_lines) ==
    LET rows == data_lines(file_lines)
    IN  IF rows = <<>> THEN [col \in DOMAIN NoForecasts |-> <<>>]
        ELSE FinalFormat(ForecastRowsFrom(NoForecasts, ColIndices(rows[1].values), rows, 2))

---------------------------------------------------------------------------
(* process_all_data *)

LAKES_CONFIG ==
    << [key |-> "superior", id |-> "superior", name |-> "Lake Superior",
        csv_file |-> "LakeSuperior_MonthlyMeanWaterLevels_1918to2026.csv",
        forecast_col |-> "SUP"],
       [key |-> "michigan_huron", id |-> "michigan_huron", name |-> "Lakes Michigan-Huron",
        csv_file |-> "LakeMichiganHuron_MonthlyMeanWaterLevels_1918to2026.csv",
        forecast_col |-> "MIH"],
       [key |-> "st_clair", id |-> "st_clair", name |-> "Lake St. Clair",
        csv_file |-> "LakeStClair_MonthlyMeanWaterLevels_1918to2026.csv",
        forecast_col |-> "STC"],
       [key |-> "erie", id |-> "erie", name |-> "Lake Erie",
        csv_file |-> "LakeErie_MonthlyMeanWaterLevels_1918to2026.csv",
        forecast_col |-> "ERI"],
       [key |-> "ontario", id |-> "ontario", name |-> "Lake Ontario",
        csv_file |-> "LakeOntario_MonthlyMeanWaterLevels_1918to2026.csv",
        forecast_col |-> "ONT"] >>

\* d.get(key, default)
DictGet(d, key, default) == IF key \in DOMAIN d THEN d[key] ELSE default

\* the exception handler of parse_pdf_records handing back what was extracted
ExceptResult_partial(extracted) == extracted

\* what parse_pdf_records returns from its exception handler
ExceptResult(extracted) == EmptyDict

\* pdf_records after "if not pdf_records: pdf_records = build_hardcoded_records()"
WithFallback(parsed) ==
    IF parsed = EmptyDict THEN build_hardcoded_records ELSE parsed

\* the forecast series attached whatever the lake's forecast list holds
ForecastSeries_always(lake_forecasts) ==
    <<[type |-> "coordinated_forecast",
       type_title |-> "Coordinated 6-Month Forecast",
       units |-> "meters_IGLD85",
       series |-> [monthly_forecast |-> lake_forecasts]]>>

\* "if lake_forecasts: lake_data['data'].append(...)": what is appended
ForecastSeries(lake_forecasts) ==
    IF lake_forecasts # <<>>
    THEN <<[type |-> "coordinated_forecast",
            type_title |-> "Coordinated 6-Month Forecast",
            units |-> "meters_IGLD85",
            series |-> [monthly_forecast |-> lake_forecasts]]>>
    ELSE <<>>

\* lake_data of one lake whose CSV exists; the timestamp `updated` is the
\* same text "now" in every record of a run
LakeData(lake_config, parsed_csv, all_time, lake_records, lake_forecasts) ==
    [lake |-> lake_config.id,
     name |-> lake_config.name,
     updated |-> "now",
     data |->
        <<[type |-> "lakewide_average_water_level",
           type_title |-> "Lakewide Average Water Level",
           units |-> "meters_IGLD85",
           series |->
              [monthly |-> parsed_csv.monthly,
               annual |-> parsed_csv.annual,
               all_time_records |-> all_time,
               calendar_month_records |->
                   DictGet(lake_records, "calendar_month_records", EmptyDict),
               period_of_record_mean |->
                   DictGet(lake_records, "period_mean", NoneNumber)]]>>
        \o ForecastSeries(lake_forecasts)]

---------------------------------------------------------------------------
(* Inputs of process_all_data *)

Twelve(token) == [k \in 1..12 |-> token]

HeaderLine(pdf_name) == [prefix |-> pdf_name, tokens |-> <<>>]
MeanLine(tokens)     == [prefix |-> "Mean", tokens |-> tokens]
MaxLine(tokens)      == [prefix |-> "Max", tokens |-> tokens]
MinLine(tokens)      == [prefix |-> "Min", tokens |-> tokens]
TextLine(tokens)     == [prefix |-> "", tokens |-> tokens]

\* a page of text; a page whose extract_text() raises
Page(page_lines) == [raises |-> FALSE, lines |-> page_lines]
BrokenPage       == [raises |-> TRUE, lines |-> <<>>]

\* a lake's block as the report prints it
SuperiorBlock ==
    << HeaderLine("LAKE SUPERIOR"),
       TextLine(<<"Period", "1918-2024">>),
       MeanLine(Twelve("183.34") \o <<"183.41">>),
       MaxLine(Twelve("183.71")),
       TextLine(Twelve("2020")),
       MinLine(Twelve("182.83")),
       TextLine(Twelve("1926")) >>

\* a block whose Max row holds a run of digits and dots that is no number
ErieBlockMalformed ==
    << HeaderLine("LAKE ERIE"),
       MeanLine(Twelve("183.34")),
       MaxLine(<<"183.71", "183.71", "1.2.3">> \o Twelve("183.71")),
       TextLine(Twelve("1985")) >>

PdfFile(pages) == [exists |-> TRUE, opens |-> TRUE, pages |-> pages]

PdfFiles ==
    { [exists |-> FALSE, opens |-> FALSE, pages |-> <<>>],
      [exists |-> TRUE, opens |-> FALSE, pages |-> <<>>],
      PdfFile(<<>>),
      PdfFile(<<Page(<<>>)>>),
      PdfFile(<<Page(SuperiorBlock)>>),
      PdfFile(<<Page(SuperiorBlock), Page(<<>>),
                Page(<<HeaderLine("LAKE ERIE"), MeanLine(Twelve("183.34"))>>)>>),
      PdfFile(<<Page(SuperiorBlock), Page(ErieBlockMalformed)>>),
      PdfFile(<<Page(SuperiorBlock), BrokenPage>>),
      PdfFile(<<Page(<<HeaderLine("LAKE SUPERIOR"), TextLine(<<"Period", "1918-2024">>)>>)>>),
      PdfFile(<<Page(<<TextLine(<<"Period", "1918-2024">>),
                       MeanLine(Twelve("183.34") \o <<"183.41">>),
                       MaxLine(Twelve("183.71")),
                       TextLine(Twelve("2020"))>>)>>) }

TextFile(file_lines) == [exists |-> TRUE, lines |-> file_lines]
NoFile == [exists |-> FALSE, lines |-> <<>>]

HeaderRow(names) == [kind |-> "header", values |-> names]

MonthlyNames ==
    <<"Year", "Jan", "Feb", "Mar", "Apr", "May", "Jun",
      "Jul", "Aug", "Sep", "Oct", "Nov", "Dec">>

\* a lake's monthly CSV: absent; empty; a full year; a year with a gap and a
\* short row
CsvFiles ==
    { NoFile,
      TextFile(<<>>),
      TextFile(<<CommentLine, HeaderRow(MonthlyNames),
                 MonthlyRowOf(Y1950, "176.10", 0, "176.10", 12)>>),
      TextFile(<<HeaderRow(MonthlyNames),
                 MonthlyRowOf(Y1950, "176.196", 7, "-9999.0", 12),
                 MonthlyRowOf(Y1951, "176.10", 0, "176.10", 11)>>) }

AllLakesHeader ==
    <<"Src", "Run", "Issued", "Units", "Datum", "Band", "Date",
      "SUP", "MIH", "STC", "ERI", "ONT">>

NoStClairHeader ==
    <<"Src", "Run", "Issued", "Units", "Datum", "Band", "Date",
      "SUP", "MIH", "ERI", "ONT">>

\* CoordForecast.csv: absent; two bands of one month for all five lakes; a
\* file without the STC column
ForecastFiles ==
    { NoFile,
      TextFile(<<CommentLine, HeaderRow(AllLakesHeader),
                 ForecastRowOf(<<Feb, Y2026>>, CellsOf("176.10", 0, "abc", 5)),
                 ForecastRowOf(<<Feb, Y2026>>, CellsOf("176.40", 0, "abc", 5))>>),
      TextFile(<<HeaderRow(NoStClairHeader),
                 ForecastRowOf(<<Mar, Y2026>>, CellsOf("176.10", 0, "abc", 4)),
                 ForecastRowOf(<<Dec, Y2025>>, CellsOf("176.40", 0, "abc", 4))>>) }

---------------------------------------------------------------------------
(* process_all_data, step by step *)

InitAssemble ==
    /\ pc = "process_all_data"
    /\ lines_read = 0
    /\ header = <<>>
    /\ line = BlankLine
    /\ MonthlyIdle
    /\ ForecastIdle
    /\ LakesIdle
    /\ HAS_PDFPLUMBER \in BOOLEAN
    /\ pdf \in PdfFiles
    /\ page_idx = 0
    /\ lines = <<>>
    /\ line_idx = 0
    /\ current_lake = None
    /\ records = EmptyDict
    /\ pdf_error = FALSE
    /\ pdf_records = EmptyDict

\* forecasts = parse_forecast_csv(forecast_file) if the file exists, else {}
LoadForecasts ==
    /\ pc = "process_all_data"
    /\ \E f \in ForecastFiles :
         result' = IF f.exists THEN parse_forecast_csv(f.lines) ELSE EmptyDict
    /\ pc' = "pdf_records"
    /\ UNCHANGED <<lines_read, header, line, monthlyVars, col_indices, forecasts,
                   pdfVars, lakeVars>>

\* "if pdf_file.exists() and HAS_PDFPLUMBER" is false: pdf_records stays {}
SkipPdf ==
    /\ pc = "pdf_records"
    /\ ~(pdf.exists /\ HAS_PDFPLUMBER)
    /\ pdf_records' = EmptyDict
    /\ pc' = "fallback"
    /\ UNCHANGED <<lines_read, header, line, monthlyVars, forecastVars, lakeVars,
                   HAS_PDFPLUMBER, pdf, page_idx, lines, line_idx, current_lake,
                   records, pdf_error>>

\* parse_pdf_records is entered: records = {} and pdfplumber.open(filepath),
\* which raises on a file it cannot read
OpenPdf ==
    /\ pc = "pdf_records"
    /\ pdf.exists /\ HAS_PDFPLUMBER
    /\ records' = EmptyDict
    /\ page_idx' = 0
    /\ IF pdf.opens
       THEN /\ pc' = "pdf_pages"
            /\ UNCHANGED <<pdf_error, pdf_records>>
       ELSE /\ pdf_error' = TRUE
            /\ pdf_records' = ExceptResult(records')
            /\ pc' = "fallback"
    /\ UNCHANGED <<lines_read, header, line, monthlyVars, forecastVars, lakeVars,
                   HAS_PDFPLUMBER, pdf, lines, line_idx, current_lake>>

\* "for page in pdf.pages": extract_text(), a page without text skipped
NextPage ==
    /\ pc = "pdf_pages"
    /\ page_idx < Len(pdf.pages)
    /\ page_idx' = page_idx + 1
    /\ LET page == pdf.pages[page_idx + 1]
       IN  IF page.raises
           THEN /\ pdf_error' = TRUE
                /\ pdf_records' = ExceptResult(records)
                /\ pc' = "fallback"
                /\ UNCHANGED <<lines, line_idx, current_lake>>
           ELSE IF page.lines = <<>>
           THEN UNCHANGED <<pc, lines, line_idx, current_lake, pdf_error, pdf_records>>
           ELSE /\ lines' = page.lines
                /\ current_lake' = None
                /\ line_idx' = 0
                /\ pc' = "pdf_lines"
                /\ UNCHANGED <<pdf_error, pdf_records>>
    /\ UNCHANGED <<lines_read, header, line, monthlyVars, forecastVars, lakeVars,
                   HAS_PDFPLUMBER, pdf, records>>

\* one iteration of "while line_idx < len(lines)"
PdfLine ==
    /\ pc = "pdf_lines"
    /\ line_idx < Len(lines)
    /\ LET st == PdfLineStep([records |-> records, current_lake |-> current_lake,
                              line_idx |-> line_idx, raised |-> FALSE], lines)
       IN  /\ records' = st.records
           /\ current_lake' = st.current_lake
           /\ line_idx' = st.line_idx
           /\ IF st.raised
              THEN /\ pdf_error' = TRUE
                   /\ pdf_records' = ExceptResult(st.records)
                   /\ pc' = "fallback"
              ELSE UNCHANGED <<pc, pdf_error, pdf_records>>
    /\ UNCHANGED <<lines_read, header, line, monthlyVars, forecastVars, lakeVars,
                   HAS_PDFPLUMBER, pdf, page_idx, lines>>

\* the while loop of a page ends
EndPage ==
    /\ pc = "pdf_lines"
    /\ line_idx >= Len(lines)
    /\ pc' = "pdf_pages"
    /\ UNCHANGED <<lines_read, header, line, monthlyVars, forecastVars, lakeVars, pdfVars>>

\* "return records" after the last page
ReturnRecords ==
    /\ pc = "pdf_pages"
    /\ page_idx >= Len(pdf.pages)
    /\ pdf_records' = records
    /\ pc' = "fallback"
    /\ UNCHANGED <<lines_read, header, line, monthlyVars, forecastVars, lakeVars,
                   HAS_PDFPLUMBER, pdf, page_idx, lines, line_idx, current_lake,
                   records, pdf_error>>

\* "if not pdf_records: pdf_records = build_hardcoded_records()"
Fallback ==
    /\ pc = "fallback"
    /\ pdf_records' = WithFallback(pdf_records)
    /\ pc' = "lakes"
    /\ UNCHANGED <<lines_read, header, line, monthlyVars, forecastVars, lakeVars,
                   HAS_PDFPLUMBER, pdf, page_idx, lines, line_idx, current_lake,
                   records, pdf_error>>

\* one iteration of "for lake_key, lake_config in LAKES_CONFIG.items()"
ProcessLake ==
    /\ pc = "lakes"
    /\ lake_idx <= Len(LAKES_CONFIG)
    /\ lake_idx' = lake_idx + 1
    /\ \E csv_file \in CsvFiles :
         LET lake_config == LAKES_CONFIG[lake_idx]
             parsed == parse_monthly_csv(csv_file.lines)
             all_time == compute_all_time_records(parsed.monthly)
         IN  /\ csv_exists' = Put(csv_exists, lake_config.key, csv_file.exists)
             /\ IF ~csv_file.exists
                THEN UNCHANGED <<csv_data, all_time_records, output>>
                ELSE /\ csv_data' = parsed
                     /\ all_time_records' = all_time
                     /\ output' = Append(output,
                            LakeData(lake_config, parsed, all_time,
                                     DictGet(pdf_records, lake_config.key, EmptyDict),
                                     DictGet(result, lake_config.forecast_col, <<>>)))
    /\ UNCHANGED <<pc, lines_read, header, line, monthly_data, annual_data,
                   forecastVars, pdfVars>>

\* "return output"
ReturnOutput ==
    /\ pc = "lakes"
    /\ lake_idx > Len(LAKES_CONFIG)
    /\ pc' = "done"
    /\ UNCHANGED <<lines_read, header, line, monthlyVars, forecastVars, pdfVars, lakeVars>>

NextAssemble ==
    \/ LoadForecasts
    \/ SkipPdf
    \/ OpenPdf
    \/ NextPage
    \/ PdfLine
    \/ EndPage
    \/ ReturnRecords
    \/ Fallback
    \/ ProcessLake
    \/ ReturnOutput

SpecAssemble == InitAssemble /\ [][NextAssemble]_vars

---------------------------------------------------------------------------
(* parse_pdf_records on its own, over every short page *)

\* the lines a page is made of: two lake headers, a Mean row with its 13th
\* value, a full Max row, a Min row of three values, a row of twelve years
\* and a row of two
PageLineKinds ==
    { HeaderLine("LAKE SUPERIOR"),
      HeaderLine("LAKE ERIE"),
      MeanLine(Twelve("183.34") \o <<"183.41">>),
      MaxLine(Twelve("183.71")),
      MinLine(<<"182.83", "182.83", "182.83">>),
      TextLine(Twelve("2020")),
      TextLine(<<"1926", "1985">>) }

\* text.split('\n') of a page with text
PagesOfText ==
    UNION { [1..n -> PageLineKinds] : n \in 1..MaxPageLines }

\* the page that may precede it in the document
FirstPages ==
    { SuperiorBlock,
      <<HeaderLine("LAKE ERIE"), MeanLine(Twelve("183.34") \o <<"183.41">>)>> }

PdfDocuments ==
    { PdfFile(<<Page(p)>>) : p \in PagesOfText }
    \cup { PdfFile(<<Page(f), Page(p)>>) : f \in FirstPages, p \in PagesOfText }

InitPdf ==
    /\ pc = "pdf_records"
    /\ lines_read = 0
    /\ header = <<>>
    /\ line = BlankLine
    /\ MonthlyIdle
    /\ ForecastIdle
    /\ LakesIdle
    /\ HAS_PDFPLUMBER \in BOOLEAN
    /\ pdf \in IF HAS_PDFPLUMBER THEN PdfDocuments ELSE {PdfFile(<<Page(SuperiorBlock)>>)}
    /\ page_idx = 0
    /\ lines = <<>>
    /\ line_idx = 0
    /\ current_lake = None
    /\ records = EmptyDict
    /\ pdf_error = FALSE
    /\ pdf_records = EmptyDict

\* "if not HAS_PDFPLUMBER: return {}"
NoPdfPlumber ==
    /\ pc = "pdf_records"
    /\ ~HAS_PDFPLUMBER
    /\ pdf_records' = EmptyDict
    /\ pc' = "fallback"
    /\ UNCHANGED <<lines_read, header, line, monthlyVars, forecastVars, lakeVars,
                   HAS_PDFPLUMBER, pdf, page_idx, lines, line_idx, current_lake,
                   records, pdf_error>>

NextPdf ==
    \/ NoPdfPlumber
    \/ OpenPdf
    \/ NextPage
    \/ PdfLine
    \/ EndPage
    \/ ReturnRecords

SpecPdf == InitPdf /\ [][NextPdf]_vars

\* "while line_idx < len(lines)" of one page, run to its end or to the
\* iteration that raises
RECURSIVE PageLoop(_, _)
PageLoop(st, page_lines) ==
    IF st.raised \/ st.line_idx >= Len(page_lines) THEN st
    ELSE PageLoop(PdfLineStep(st, page_lines), page_lines)

\* "for page in pdf.pages" from page i on
RECURSIVE PagesLoop(_, _, _)
PagesLoop(recs, pages, i) ==
    IF i > Len(pages) THEN [records |-> recs, raised |-> FALSE]
    ELSE IF pages[i].raises THEN [records |-> recs, raised |-> TRUE]
    ELSE IF pages[i].lines = <<>> THEN PagesLoop(recs, pages, i + 1)
    ELSE LET st == PageLoop([records |-> recs, current_lake |-> None,
                             line_idx |-> 0, raised |-> FALSE], pages[i].lines)
         IN  IF st.raised THEN [records |-> st.records, raised |-> TRUE]
             ELSE PagesLoop(st.records, pages, i + 1)

\* parse_pdf_records(filepath) as one function of the document
parse_pdf_records(has_pdfplumber, file) ==
    IF ~has_pdfplumber THEN EmptyDict
    ELSE IF ~file.opens THEN ExceptResult(EmptyDict)
    ELSE LET r == PagesLoop(EmptyDict, file.pages, 1)
         IN  IF r.raised THEN ExceptResult(r.records) ELSE r.records

---------------------------------------------------------------------------
(* Properties of parse_monthly_csv and compute_all_time_records *)

\* a month field that parses as a number and is not the sentinel
ValidField(s) == s \in DOMAIN FloatTable /\ FloatTable[s] # NO_DATA_VALUE

\* v is num/den milli rounded to 2 decimals: a multiple of 10 milli no
\* further than half a hundredth from num/den (either neighbour at a tie)
IsRounded(v, num, den) ==
    /\ v % 10 = 0
    /\ 2 * (v * den - num) <= 10 * den
    /\ 2 * (num - v * den) <= 10 * den

\* the step that processed the data row now in line'
RowStep ==
    /\ pc = "parse_monthly_csv"
    /\ header # <<>>
    /\ lines_read' = lines_read + 1
    /\ line'.kind = "data"

\* a row of at least 13 fields whose 12 month fields are all valid
FullRow(row) ==
    /\ Len(row.values) >= 13
    /\ \A k \in 2..13 : ValidField(row.values[k])

TwoDigits ==
    << <<"0","1">>, <<"0","2">>, <<"0","3">>, <<"0","4">>, <<"0","5">>, <<"0","6">>,
       <<"0","7">>, <<"0","8">>, <<"0","9">>, <<"1","0">>, <<"1","1">>, <<"1","2">> >>

\* C1: no Observation emitted by parse_monthly_csv, monthly or annual, has
\* the sentinel -9999.0 as its (rounded) value.
C1_NoSentinelEmitted ==
    /\ \A i \in 1..Len(monthly_data) : monthly_data[i].value # NO_DATA_VALUE
    /\ \A i \in 1..Len(annual_data) : annual_data[i].value # NO_DATA_VALUE

\* C2: a row whose 12 month fields are all valid appends exactly one annual
\* Observation, keyed by the row's year, whose value is the mean of the 12
\* values rounded to 2 decimals; any other row appends no annual Observation.
C2_AnnualIffTwelveValid ==
    [][RowStep =>
        LET row == line'
        IN  IF FullRow(row)
            THEN /\ Len(annual_data') = Len(annual_data) + 1
                 /\ SubSeq(annual_data', 1, Len(annual_data)) = annual_data
                 /\ annual_data'[Len(annual_data')].date = row.values[1]
                 /\ IsRounded(annual_data'[Len(annual_data')].value,
                              sum([k \in 1..12 |-> FloatTable[row.values[k + 1]]]), 12)
            ELSE annual_data' = annual_data]_vars

\* a row with 12 valid fields has just been averaged
C2_Witness ==
    /\ pc = "parse_monthly_csv"
    /\ line.kind = "data"
    /\ FullRow(line)
    /\ \E k \in 2..12 : line.values[k] # line.values[k + 1]
    /\ annual_data # <<>>
    /\ annual_data[Len(annual_data)].date = line.values[1]

\* C3: a row of at least 13 fields appends one monthly Observation for each
\* valid month field and no other, in field order, keyed "{year}-{month:02d}"
\* by the field's position; a shorter row appends nothing and the loop goes on.
C3_MonthlyPerValidField ==
    [][RowStep =>
        LET row == line'
            old == Len(monthly_data)
        IN  /\ pc' = "parse_monthly_csv"
            /\ Len(monthly_data') >= old
            /\ SubSeq(monthly_data', 1, old) = monthly_data
            /\ IF Len(row.values) < 13
               THEN monthly_data' = monthly_data /\ annual_data' = annual_data
               ELSE LET V == {k \in 1..12 : ValidField(row.values[k + 1])}
                    IN  /\ Len(monthly_data') = old + Cardinality(V)
                        /\ \A k \in V :
                             LET j == Cardinality({i \in V : i <= k})
                                 obs == monthly_data'[old + j]
                             IN  /\ obs.date = row.values[1] \o <<"-">> \o TwoDigits[k]
                                 /\ IsRounded(obs.value, FloatTable[row.values[k + 1]], 1)]_vars

\* a row with an unparsable field in the middle was processed: the fields
\* after it were still emitted, and the line before it emitted nothing
C3_Witness ==
    /\ pc = "parse_monthly_csv"
    /\ line.kind = "data"
    /\ Len(line.values) >= 13
    /\ line.values[8] = "abc"
    /\ lines_read = 3
    /\ Len(monthly_data) = 11
    /\ monthly_data[11].date = line.values[1] \o <<"-", "1", "2">>

\* C8: for a non-empty series max.value / min.value are the largest /
\* smallest value, max.date / min.date the date of the first Observation
\* holding it, avg.value the mean of all values rounded to 2 decimals; for an
\* empty series the record is empty.
C8_AllTimeRecords ==
    pc = "done" =>
        LET data == csv_data.monthly
            n == Len(data)
            IsFirst(i, v) == data[i].value = v /\ \A j \in 1..(i - 1) : data[j].value # v
        IN  IF n = 0 THEN DOMAIN all_time_records = {}
            ELSE /\ \A i \in 1..n : data[i].value <= all_time_records.max.value
                 /\ \A i \in 1..n : data[i].value >= all_time_records.min.value
                 /\ \E i \in 1..n : /\ IsFirst(i, all_time_records.max.value)
                                    /\ all_time_records.max.date = data[i].date
                 /\ \E i \in 1..n : /\ IsFirst(i, all_time_records.min.value)
                                    /\ all_time_records.min.date = data[i].date
                 /\ IsRounded(all_time_records.avg.value,
                              sum([i \in 1..n |-> data[i].value]), n)

\* records were computed from a series in which the maximum occurs more than
\* once and is not the first value
C8_Witness ==
    /\ pc = "done"
    /\ Len(csv_data.monthly) >= 13
    /\ \E i, j \in 1..Len(csv_data.monthly) :
         /\ i < j
         /\ csv_data.monthly[i].value = all_time_records.max.value
         /\ csv_data.monthly[j].value = all_time_records.max.value
         /\ csv_data.monthly[1].value < all_time_records.max.value
    /\ all_time_records.min.value < all_time_records.max.value

\* C11: the annual series parse_monthly_csv returns holds at most one
\* Observation per calendar-year key, also when several data rows of the file
\* carry the same year
C11_OneAnnualPerYear ==
    pc \in {"compute_all_time_records", "done"} =>
        \A i, j \in 1..Len(csv_data.annual) :
            csv_data.annual[i].date = csv_data.annual[j].date => i = j

---------------------------------------------------------------------------
(* Properties of parse_forecast_csv *)

\* the step that processed the data row now in line'
ForecastRowStep ==
    /\ pc = "parse_forecast_csv"
    /\ header # <<>>
    /\ lines_read' = lines_read + 1
    /\ line'.kind = "data"

\* a row whose Date field (index 6) yields a month key
HasDateKey(values) ==
    /\ Len(values) >= 7
    /\ Len(values[7]) = 2
    /\ Len(values[7][1]) >= 3
    /\ \E m \in 1..12 : MONTH_NAMES[m] = SubSeq(values[7][1], 1, 3)

\* "{year}-{month:02d}" of such a row
DateKeyOf(values) ==
    LET m == CHOOSE m \in 1..12 : MONTH_NAMES[m] = SubSeq(values[7][1], 1, 3)
    IN  values[7][2] \o <<"-">> \o TwoDigits[m]

\* the header names the lake column and the row's cell for it is a number
CellReadable(values, col) ==
    /\ col \in DOMAIN col_indices
    /\ col_indices[col] < Len(values)
    /\ values[col_indices[col] + 1] \in DOMAIN FloatTable

CellValue(values, col) == FloatTable[values[col_indices[col] + 1]]

\* the values accumulated for a lake column under a month key
Bucket(fc, col, key) == IF key \in DOMAIN fc[col] THEN fc[col][key] ELSE <<>>

LakeColSet == {"SUP", "MIH", "STC", "ERI", "ONT"}

\* C4: in a row with a month key, every lake column whose cell is readable
\* has its value accumulated under that key, whatever happens to the row's
\* other lake columns.
C4_OtherColumnsStillAccumulated ==
    [][ForecastRowStep /\ HasDateKey(line'.values) =>
        \A col \in LakeColSet :
            CellReadable(line'.values, col) =>
                Bucket(forecasts', col, DateKeyOf(line'.values)) =
                    Append(Bucket(forecasts, col, DateKeyOf(line'.values)),
                           CellValue(line'.values, col))]_vars

\* C5: a bucket grows only by the value a row holds for that lake column,
\* under the row's month key; and for every lake column the emitted bands
\* are the month keys accumulated, each with forecast_low / forecast_high the
\* rounded minimum / maximum of its bucket, so that forecast_low <= forecast_high.
C5_BandIsMinMaxOfBucket ==
    /\ [][ForecastRowStep =>
           \A col \in LakeColSet : \A key \in DOMAIN forecasts'[col] :
               \/ /\ key \in DOMAIN forecasts[col]
                  /\ forecasts'[col][key] = forecasts[col][key]
               \/ /\ HasDateKey(line'.values)
                  /\ key = DateKeyOf(line'.values)
                  /\ CellReadable(line'.values, col)
                  /\ forecasts'[col][key] =
                        Append(Bucket(forecasts, col, key), CellValue(line'.values, col))]_vars
    /\ [](pc = "done" =>
           \A col \in LakeColSet :
               /\ {result[col][i].date : i \in 1..Len(result[col])} = DOMAIN forecasts[col]
               /\ \A i \in 1..Len(result[col]) :
                    LET band == result[col][i]
                        b == forecasts[col][band.date]
                    IN  /\ \E j \in 1..Len(b) :
                              /\ \A k \in 1..Len(b) : b[j] <= b[k]
                              /\ IsRounded(band.forecast_low, b[j], 1)
                        /\ \E j \in 1..Len(b) :
                              /\ \A k \in 1..Len(b) : b[j] >= b[k]
                              /\ IsRounded(band.forecast_high, b[j], 1)
                        /\ band.forecast_low <= band.forecast_high)

\* a second row for the same month key held a larger value and widened the
\* band: forecast_high is that value, forecast_low the earlier one
C5_Witness ==
    /\ pc = "done"
    /\ \E i \in 1..Len(result["MIH"]) :
         LET band == result["MIH"][i]
             b == forecasts["MIH"][band.date]
         IN  /\ Len(b) = 2
             /\ b[1] = 176100 /\ b[2] = 176400
             /\ band.forecast_low = 176100
             /\ band.forecast_high = 176400

\* a before b in the order of Python strings
StrBefore(a, b) ==
    \E n \in 0..Len(a) :
        /\ n <= Len(b)
        /\ SubSeq(a, 1, n) = SubSeq(b, 1, n)
        /\ \/ n = Len(a) /\ n < Len(b)
           \/ n < Len(a) /\ n < Len(b) /\ Ord(a[n + 1]) < Ord(b[n + 1])

RECURSIVE DigitsToInt(_)
DigitsToInt(d) ==
    IF d = <<>> THEN 0
    ELSE 10 * DigitsToInt(SubSeq(d, 1, Len(d) - 1)) + (Ord(d[Len(d)]) - 48)

\* the month a key "<year>-<mm>" denotes, counted in months
MonthOfKey(key) ==
    12 * DigitsToInt(SubSeq(key, 1, Len(key) - 3)) + DigitsToInt(SubSeq(key, Len(key) - 1, Len(key)))

\* C10 as stated: the emitted keys are the accumulated keys, each once, in
\* strictly ascending order of the key string, and that order is the
\* chronological order of the months they denote.
C10_AscendingIsChronological ==
    pc = "done" =>
        \A col \in LakeColSet :
            /\ {result[col][i].date : i \in 1..Len(result[col])} = DOMAIN forecasts[col]
            /\ \A i, j \in 1..Len(result[col]) :
                 i < j => /\ StrBefore(result[col][i].date, result[col][j].date)
                          /\ MonthOfKey(result[col][i].date) < MonthOfKey(result[col][j].date)

\* C10 amended: the emitted keys are the accumulated keys, each once, in
\* strictly ascending order of the key string; between two keys whose years
\* are both 4-digit numerals that order is the chronological order.
C10_AscendingChronologicalFor4DigitYears ==
    pc = "done" =>
        \A col \in LakeColSet :
            /\ {result[col][i].date : i \in 1..Len(result[col])} = DOMAIN forecasts[col]
            /\ \A i, j \in 1..Len(result[col]) :
                 i < j => /\ StrBefore(result[col][i].date, result[col][j].date)
                          /\ (Len(result[col][i].date) = 7 /\ Len(result[col][j].date) = 7
                                => MonthOfKey(result[col][i].date)
                                     < MonthOfKey(result[col][j].date))

\* the last row read brought a month key of an earlier year than the key
\* accumulated before it, and is emitted first
C10_Witness ==
    /\ pc = "done"
    /\ line.kind = "data"
    /\ HasDateKey(line.values)
    /\ Len(result["SUP"]) = 2
    /\ result["SUP"][1].date = DateKeyOf(line.values)
    /\ Len(forecasts["SUP"][DateKeyOf(line.values)]) = 1
    /\ Len(result["SUP"][1].date) = 7
    /\ Len(result["SUP"][2].date) = 7
    /\ SubSeq(result["SUP"][1].date, 1, 4) # SubSeq(result["SUP"][2].date, 1, 4)

---------------------------------------------------------------------------
(* Properties of the record extraction, its fallback and the assembler *)

\* the lakes in declaration order, and the forecast column of each
LakeOrder == <<"superior", "michigan_huron", "st_clair", "erie", "ontario">>

ForecastColOf(lake) ==
    CASE lake = "superior" -> "SUP" [] lake = "michigan_huron" -> "MIH"
      [] lake = "st_clair" -> "STC" [] lake = "erie" -> "ERI" [] lake = "ontario" -> "ONT"

\* the water-level series of an emitted lake record
LevelSeries(lake_record) == lake_record.data[1].series

\* whether an extracted record holds a Mean, Max or Min entry or a period mean
HoldsData(rec) ==
    \/ rec.period_mean # NoneNumber
    \/ \E k \in DOMAIN rec.calendar_month_records : DOMAIN rec.calendar_month_records[k] # {}

\* C6: once the extraction has failed, parse_pdf_records has reported no
\* records, and every lake emitted carries the calendar-month records and
\* the period mean of the static table.
C6_FailureGivesStaticTable ==
    pdf_error =>
        /\ pc = "fallback" => pdf_records = EmptyDict
        /\ \A i \in 1..Len(output) :
             /\ LevelSeries(output[i]).calendar_month_records =
                    build_hardcoded_records[output[i].lake].calendar_month_records
             /\ LevelSeries(output[i]).period_of_record_mean =
                    build_hardcoded_records[output[i].lake].period_mean
             /\ LevelSeries(output[i]).calendar_month_records["1"].max.year_set >= 1918

\* the extraction failed on the second page, after Lake Superior's rows had
\* been extracted, and Lake Superior was emitted
C6_Witness ==
    /\ pc = "done"
    /\ pdf_error
    /\ "superior" \in DOMAIN records
    /\ HoldsData(records["superior"])
    /\ "erie" \in DOMAIN records
    /\ \E i \in 1..Len(output) : output[i].lake = "superior"

\* C7: when the extraction is unavailable (no PDF capability, no PDF file)
\* or completes without a Mean, Max or Min record for any lake, every
\* emitted lake record has calendar-month records for all 12 months and a
\* period mean that is not None.
C7_NoRecordsGivesStaticTable ==
    (/\ pc = "done"
     /\ \/ ~HAS_PDFPLUMBER
        \/ ~pdf.exists
        \/ /\ ~pdf_error
           /\ \A lake \in DOMAIN records : ~HoldsData(records[lake]))
    => \A i \in 1..Len(output) :
         /\ DOMAIN LevelSeries(output[i]).calendar_month_records = {MonthKey[k] : k \in 1..12}
         /\ LevelSeries(output[i]).period_of_record_mean # NoneNumber

\* C9: the output holds one record per lake whose CSV exists and none for the
\* others, in declaration order; each record's first series is the water-level
\* series, and a forecast series follows exactly when the lake's forecast
\* list is not empty.
C9_OneRecordPerPresentCsv ==
    pc = "done" =>
        /\ DOMAIN csv_exists = {LakeOrder[i] : i \in 1..5}
        /\ [i \in 1..Len(output) |-> output[i].lake]
              = SelectSeq(LakeOrder, LAMBDA lake : csv_exists[lake])
        /\ \A i \in 1..Len(output) :
             LET lake_forecasts ==
                     IF ForecastColOf(output[i].lake) \in DOMAIN result
                     THEN result[ForecastColOf(output[i].lake)] ELSE <<>>
                 data == output[i].data
             IN  /\ data[1].type = "lakewide_average_water_level"
                 /\ \A j \in 2..Len(data) : data[j].type = "coordinated_forecast"
                 /\ IF lake_forecasts # <<>>
                    THEN Len(data) = 2 /\ data[2].series.monthly_forecast = lake_forecasts
                    ELSE Len(data) = 1

\* st_clair's CSV exists but the forecast file has no STC column, superior
\* has a forecast, and one lake's CSV is absent
C9_Witness ==
    /\ pc = "done"
    /\ Len(output) = 4
    /\ ~csv_exists["michigan_huron"]
    /\ output[1].lake = "superior" /\ Len(output[1].data) = 2
    /\ output[2].lake = "st_clair" /\ Len(output[2].data) = 1
    /\ result["SUP"] # <<>>

---------------------------------------------------------------------------
(* Properties of parse_pdf_records *)

\* an iteration of the page's while loop is taken
PdfLineTaken == pc = "pdf_lines" /\ line_idx < Len(lines) /\ line_idx' # line_idx

\* the iteration processes a Max or Min line while a lake is current
ExtremeLineSeen ==
    /\ PdfLineTaken
    /\ current_lake # None
    /\ lines[line_idx + 1].prefix \in {"Max", "Min"}

\* the 4-digit tokens of the line after the current one, none if the page ends
FollowingYears ==
    IF line_idx + 1 < Len(lines) THEN FindYears(lines[line_idx + 2].tokens) ELSE <<>>

\* month_key's entry of a lake's record holds val under field
HasMonthField(rec, month_key, field, val) ==
    /\ month_key \in DOMAIN rec.calendar_month_records
    /\ field \in DOMAIN rec.calendar_month_records[month_key]
    /\ rec.calendar_month_records[month_key][field] = val

\* C12: for every Max (Min) line seen while a lake is current, each of its
\* first 12 numeric tokens i is recorded as month i's max (min) value, with
\* year_set the i-th 4-digit token of the immediately following line if that
\* token exists and null otherwise, also when the following line is shorter
\* than the value line or the page has no following line
C12_ExtremeRowRecorded ==
    [][ExtremeLineSeen /\ ~pdf_error' =>
          LET ln == lines[line_idx + 1]
              field == IF ln.prefix = "Max" THEN "max" ELSE "min"
              values == FindNumbers(ln.tokens)
              years == FollowingYears
          IN  /\ current_lake' = current_lake
              /\ current_lake \in DOMAIN records'
              /\ \A i \in 1..Min2(Len(values), 12) :
                     HasMonthField(records'[current_lake], MonthKey[i], field,
                         [value |-> float(values[i]),
                          year_set |-> IF i <= Len(years) THEN int(years[i])
                                       ELSE NoneNumber])]_vars

\* line k of page p is a header of the lake
HeaderOf(lake, p, k) ==
    LET ln == pdf.pages[p].lines[k]
    IN  ln.prefix \in DOMAIN lake_name_map /\ lake_name_map[ln.prefix] = lake

\* the places <<p, k>> of the document where a header of the lake stands
HeaderPlaces(lake) ==
    UNION { { <<p, k>> : k \in { n \in 1..Len(pdf.pages[p].lines) : HeaderOf(lake, p, n) } } :
            p \in 1..Len(pdf.pages) }

\* the last of them in reading order
LastHeaderPlace(lake) ==
    CHOOSE pk \in HeaderPlaces(lake) :
        \A o \in HeaderPlaces(lake) :
            o[1] < pk[1] \/ (o[1] = pk[1] /\ o[2] <= pk[2])

\* the document from that header on
FromLastHeader(lake) ==
    LET pk == LastHeaderPlace(lake)
        page_lines == pdf.pages[pk[1]].lines
    IN  PdfFile(<<Page(SubSeq(page_lines, pk[2], Len(page_lines)))>>
                \o SubSeq(pdf.pages, pk[1] + 1, Len(pdf.pages)))

\* the lake of the most recent header line at or before line k of the page
\* being read, None if there is none
RECURSIVE LakeOfLastHeaderBefore(_)
LakeOfLastHeaderBefore(k) ==
    IF k = 0 THEN None
    ELSE IF lines[k].prefix \in DOMAIN lake_name_map
         THEN lake_name_map[lines[k].prefix]
         ELSE LakeOfLastHeaderBefore(k - 1)

\* C13: every processed Mean/Max/Min line is attributed to the lake of the
\* most recent preceding header line of the same page (to no lake before the
\* page's first header), every header occurrence resets its lake's
\* accumulator, and so after the pass a lake's record holds only the data of
\* the lines that follow the lake's last header occurrence in the document
C13_LastHeaderWins ==
    /\ [][PdfLineTaken /\ ~pdf_error' =>
            LET ln == lines[line_idx + 1]
                lake == LakeOfLastHeaderBefore(line_idx)
            IN  /\ ln.prefix \in {"Mean", "Max", "Min"} =>
                     /\ current_lake' = lake
                     /\ DOMAIN records' = DOMAIN records
                     /\ \A l \in DOMAIN records : l # lake => records'[l] = records[l]
                /\ ln.prefix \in DOMAIN lake_name_map =>
                     /\ current_lake' = lake_name_map[ln.prefix]
                     /\ records' = Put(records, lake_name_map[ln.prefix], FreshRecord)]_vars
    /\ [](pc = "fallback" /\ HAS_PDFPLUMBER /\ ~pdf_error =>
            \A lake \in DOMAIN pdf_records :
                /\ HeaderPlaces(lake) # {}
                /\ pdf_records[lake] =
                       parse_pdf_records(TRUE, FromLastHeader(lake))[lake])

\* the step machine and the function of the whole document agree
PdfStepsAgree ==
    pc = "fallback" => pdf_records = parse_pdf_records(HAS_PDFPLUMBER, pdf)

===========================================================================
